---- MODULE Spec2Model ----
(***************************************************************************)
(* Slice & Metric Ingestion Engine of klimosha97/agent_app:                *)
(* backend/app/services/data_loader.py (DataLoader) as a state machine     *)
(* over the PostgreSQL tables stat_slices, players and player_statistics.  *)
(*                                                                         *)
(* One session runs one load at a time.  `db` is the committed database,   *)
(* `tx` is what the session's open transaction sees.  A load is            *)
(*   StartLoad -> ResolveSlice -> LoadRow* -> Commit     (or FailLoad).    *)
(* The upload endpoints of backend/app/api/upload.py wrap the load; two    *)
(* sessions that load at the same time are the variable `ses`.             *)
(*                                                                         *)
(* Modelling conventions                                                   *)
(*  - a nullable column or Optional value is a set with at most one        *)
(*    element: {} is NULL/None, {v} is the value v;                        *)
(*  - a spreadsheet cell is a tagged record (NaN, number, text, infinity); *)
(*    numbers are integers, name and team cells carry no outer blanks;     *)
(*  - the catalogue METRICS_MAPPING is cut down to two metrics;            *)
(*  - CURRENT_TIMESTAMP is the logical time at which the load started;     *)
(*  - the updated_at columns of players and player_statistics are left     *)
(*    out: nothing in the loader reads them.                               *)
(***************************************************************************)
EXTENDS Integers, Sequences, FiniteSets, TLC

VARIABLES
    db,             \* committed tables
    tx,             \* tables as seen by the session's open transaction
    txFailed,       \* PostgreSQL: a statement raised, the transaction is aborted
    clock,          \* number of loads started; CURRENT_TIMESTAMP of the load
    pc,             \* position of load_file
    args,           \* arguments of the running / last load_file call
    df,             \* rows read from the file
    idx,            \* 1-based index of the next row of df
    cur,            \* load_file locals: period_value, slice_id, is_new
    counts,         \* load_file locals: players_loaded, stats_loaded
    rowlog,         \* per row of df: what the per-row handler saw
    ret,            \* what the last load_file call returned
    forceUsed,      \* history: some load was started with force_new_season
    first,          \* history: the outcome of the first run when the call is a re-run
    req,            \* the upload endpoint request that made the running load_file call
    chk,            \* the last response of the check-new-season endpoint
    rounds,         \* history: current_round at the start, the round uploads answered with success
    ses             \* concurrent uploads: per database session, its position, locals and open transaction

vars == <<db, tx, txFailed, clock, pc, args, df, idx, cur, counts,
          rowlog, ret, forceUsed, first, req, chk, rounds, ses>>

-----------------------------------------------------------------------------
(* Bounds of the model *)

MaxLoads == 2
MaxRows == 2

-----------------------------------------------------------------------------
(* Optional values and spreadsheet cells *)

None == {}
Some(v) == {v}
Val(o) == CHOOSE v \in o : TRUE
Coalesce(a, b) == IF a # None THEN a ELSE b

NaN == [k |-> "nan", n |-> 0, s |-> ""]
Inf == [k |-> "inf", n |-> 0, s |-> ""]
Num(n) == [k |-> "num", n |-> n, s |-> ""]
Str(s) == [k |-> "str", n |-> 0, s |-> s]
Dash == Str("-")

\* pd.isna / pd.notna
IsNa(c) == c.k = "nan"
NotNa(c) == ~IsNa(c)

-----------------------------------------------------------------------------
(* Static tables *)

CurrentYear == 2026

YearStr(y) == IF y = 2025 THEN "2025" ELSE IF y = 2026 THEN "2026" ELSE "other"

\* positions(code -> position_id)
Positions == [FW |-> 1, MF |-> 2]

\* METRICS_MAPPING, in dictionary order: metric_code, the row column is named alike
MetricsMapping == <<"goals", "xg">>

Tournaments == {0}

\* tournaments.season as configured for the installation (no code of the
\* repository writes it): not set, or set
ConfiguredSeasons == {None, Some("2025")}

\* migration: current_round INTEGER DEFAULT 0, every tournament is seeded with 0
SeededRound == Some(0)

InitTablesAt(season, current_round) ==
    [slices |-> {}, players |-> {}, stats |-> {},
     tournaments |-> [t \in Tournaments |->
                         [season |-> season, current_round |-> current_round]]]

InitTables(season) == InitTablesAt(season, SeededRound)

-----------------------------------------------------------------------------
(* Slice Manager: DataLoader._get_tournament_season,                        *)
(* _check_new_season_needed, _upsert_slice                                  *)

\* SELECT season FROM tournaments WHERE id = :tournament_id, else the year
GetTournamentSeason(t, tournament_id) ==
    LET season == t.tournaments[tournament_id].season
    IN  IF season = None THEN YearStr(CurrentYear) ELSE Val(season)

\* the SEASON slices of (tournament, slice_type)
SeasonSlices(t, tournament_id, slice_type) ==
    {s \in t.slices : /\ s.tournament_id = tournament_id
                      /\ s.slice_type = slice_type
                      /\ s.period_type = "SEASON"}

\* ORDER BY uploaded_at DESC LIMIT 1: the period values the query may return
LatestSeasons(t, tournament_id, slice_type) ==
    LET c == SeasonSlices(t, tournament_id, slice_type)
    IN  {s.period_value : s \in {x \in c : \A y \in c : y.uploaded_at <= x.uploaded_at}}

\* the values _check_new_season_needed may return (one unless timestamps tie)
CheckNewSeasonNeeded(t, tournament_id, slice_type, new_season) ==
    LET latest == LatestSeasons(t, tournament_id, slice_type)
    IN  IF latest = {} THEN {FALSE}
        ELSE {existing_season # new_season : existing_season \in latest}

\* faulty variants of line 332: never reuse; reuse for every period kind;
\* reuse although force_new is set
NeverLooks(period_type, force_new) == FALSE
LooksUnlessForced(period_type, force_new) == ~force_new
LooksForSeason(period_type, force_new) == period_type = "SEASON"

\* lines 296-309: the tables after the SELECT of _check_new_season_needed
AfterLoaderCheck(t, tournament_id, slice_type, new_season) == t

\* line 332: only a SEASON load without force_new looks for a slice to reuse
LooksForExisting(period_type, force_new) ==
    period_type = "SEASON" /\ ~force_new

\* faulty variant of lines 334-348: the WHERE clause without period_value
ExistingSlicesAnyPeriod(t, tournament_id, slice_type, period_type, period_value) ==
    {s \in t.slices : /\ s.tournament_id = tournament_id
                      /\ s.slice_type = slice_type
                      /\ s.period_type = period_type}

\* lines 334-348: the rows the SELECT of _upsert_slice matches
ExistingSlices(t, tournament_id, slice_type, period_type, period_value) ==
    {s \in t.slices : /\ s.tournament_id = tournament_id
                      /\ s.slice_type = slice_type
                      /\ s.period_type = period_type
                      /\ s.period_value = period_value}

Description(slice_type, period_type, period_value, updated) ==
    IF updated THEN <<slice_type, period_type, period_value, "(updated)">>
    ELSE <<slice_type, period_type, period_value>>

\* lines 352-360: UPDATE stat_slices SET uploaded_at, description WHERE slice_id
UpdateSlice(slices, existing_id, now, description) ==
    {IF s.slice_id = existing_id
        THEN [s EXCEPT !.uploaded_at = now, !.description = description]
        ELSE s : s \in slices}

\* lines 365-375: INSERT INTO stat_slices ... RETURNING slice_id
InsertSlice(slices, new_id, tournament_id, slice_type, period_type, period_value, now) ==
    slices \cup {[slice_id |-> new_id,
                  tournament_id |-> tournament_id,
                  slice_type |-> slice_type,
                  period_type |-> period_type,
                  period_value |-> period_value,
                  uploaded_at |-> now,
                  description |-> Description(slice_type, period_type, period_value, FALSE)]}

\* a SERIAL column hands out an id above every stored one (the gaps that
\* rolled-back inserts leave in the sequence are not modelled)
NextId(ids) == IF ids = {} THEN 1 ELSE 1 + CHOOSE m \in ids : \A i \in ids : i <= m

\* _upsert_slice: the outcomes [tables, slice_id, is_new] it may produce; more
\* than one only when the unordered SELECT matches several rows and .scalar()
\* takes whichever comes first
UpsertSlice(t, now, tournament_id, slice_type, period_type, period_value, force_new) ==
    LET existing == IF LooksForExisting(period_type, force_new)
                    THEN ExistingSlices(t, tournament_id, slice_type, period_type, period_value)
                    ELSE {}
        new_id == NextId({s.slice_id : s \in t.slices})
    IN  IF existing # {}
        THEN {[tables |-> [t EXCEPT !.slices =
                              UpdateSlice(t.slices, e.slice_id, now,
                                  Description(slice_type, period_type, period_value, TRUE))],
               slice_id |-> e.slice_id, is_new |-> FALSE]
              : e \in existing}
        ELSE {[tables |-> [t EXCEPT !.slices =
                              InsertSlice(t.slices, new_id, tournament_id, slice_type,
                                          period_type, period_value, now)],
               slice_id |-> new_id, is_new |-> TRUE]}

-----------------------------------------------------------------------------
(* Identity Resolver and Metric Upsert Engine: DataLoader._load_player_row  *)

\* str(cell).strip() of a text cell
CellStr(c) == IF c.k = "str" THEN c.s ELSE "number"

\* line 397: `pd.notna(age) and age > 0` raises TypeError on a text cell,
\* int(age) raises OverflowError on infinity
AgeRaises(age) == NotNa(age) /\ age.k \in {"str", "inf"}

\* line 397: birth_year = current_year - int(age) if notna(age) and age > 0
BirthYear(age) ==
    IF NotNa(age) /\ age.k = "num" /\ age.n > 0
    THEN Some(CurrentYear - age.n) ELSE None

\* lines 401, 404: int(cell) raises on a text other than '-' and on infinity
IntRaises(c) == NotNa(c) /\ c # Dash /\ c.k \in {"str", "inf"}

\* lines 401, 404: int(cell) if notna(cell) and cell != '-' else None
IntOrNone(c) == IF NotNa(c) /\ c # Dash /\ c.k = "num" THEN Some(c.n) ELSE None

\* line 407: str(citizenship).strip() if notna(citizenship) else None
StrOrNone(c) == IF NotNa(c) THEN Some(CellStr(c)) ELSE None

\* lines 389-407: does reading the identity fields of the row raise
ParseRaises(row) ==
    AgeRaises(row.age) \/ IntRaises(row.height) \/ IntRaises(row.weight)

\* lines 389-407: the values bound into the players INSERT
ParseRow(row, tournament_id) ==
    [full_name |-> row.name,
     birth_year |-> BirthYear(row.age),
     team_name |-> row.team,
     tournament_id |-> tournament_id,
     position_code |-> row.pos,
     height |-> IntOrNone(row.height),
     weight |-> IntOrNone(row.weight),
     citizenship |-> StrOrNone(row.cit)]

\* lines 410-414: SELECT position_id FROM positions WHERE code = :code
PositionId(code) == IF code \in DOMAIN Positions THEN Some(Positions[code]) ELSE None

\* faulty variant of line 429: the conflict target without team_name
PlayerConflictsAnyTeam(players, v) ==
    {p \in players : /\ p.full_name = v.full_name
                     /\ p.birth_year # None
                     /\ v.birth_year # None
                     /\ p.birth_year = v.birth_year
                     /\ p.tournament_id = v.tournament_id}

\* line 429: ON CONFLICT (full_name, birth_year, team_name, tournament_id).
\* The arbiter is a unique index on the four columns; PostgreSQL treats NULLs
\* in a unique index as distinct, so a NULL birth_year conflicts with nothing.
PlayerConflicts(players, v) ==
    {p \in players : /\ p.full_name = v.full_name
                     /\ p.birth_year # None
                     /\ v.birth_year # None
                     /\ p.birth_year = v.birth_year
                     /\ p.team_name = v.team_name
                     /\ p.tournament_id = v.tournament_id}

\* faulty variant of lines 430-435: SET x = EXCLUDED.x without COALESCE
MergePlayerOverwrite(p, v, position_id) ==
    [p EXCEPT !.position_id = position_id,
              !.height = v.height,
              !.weight = v.weight,
              !.citizenship = v.citizenship]

\* lines 430-435: DO UPDATE SET position_id = EXCLUDED.position_id,
\* height/weight/citizenship = COALESCE(EXCLUDED.x, players.x)
MergePlayer(p, v, position_id) ==
    [p EXCEPT !.position_id = position_id,
              !.height = Coalesce(v.height, p.height),
              !.weight = Coalesce(v.weight, p.weight),
              !.citizenship = Coalesce(v.citizenship, p.citizenship)]

\* lines 421-428: the inserted row
NewPlayer(new_id, v, position_id) ==
    [player_id |-> new_id,
     full_name |-> v.full_name,
     birth_year |-> v.birth_year,
     team_name |-> v.team_name,
     tournament_id |-> v.tournament_id,
     position_id |-> position_id,
     height |-> v.height,
     weight |-> v.weight,
     citizenship |-> v.citizenship]

\* lines 420-448: INSERT ... ON CONFLICT DO UPDATE ... RETURNING player_id
UpsertPlayer(players, v, position_id) ==
    LET hit == PlayerConflicts(players, v)
        new_id == NextId({p.player_id : p \in players})
    IN  IF hit # {}
        THEN LET p == CHOOSE x \in hit : TRUE
             IN  [players |-> (players \ {p}) \cup {MergePlayer(p, v, position_id)},
                  player_id |-> p.player_id]
        ELSE [players |-> players \cup {NewPlayer(new_id, v, position_id)},
              player_id |-> new_id]

\* float('inf'): the one value of the model that np.isfinite rejects
Infinity == 1000000

\* line 464: float(value) of a cell that is a number or an infinity
FloatOf(c) == IF c.k = "num" THEN c.n ELSE Infinity

\* faulty variant of lines 454-473: the np.isfinite test is left out
MetricSkippedNoFinite(c) ==
    \/ c.k = "absent"
    \/ IsNa(c)
    \/ c = Dash
    \/ c.k = "str"

\* lines 454-473: is the metric cell skipped (column absent, empty, '-',
\* not a number, not finite); the text cells of the model are not numerals
MetricSkipped(c) ==
    \/ c.k = "absent"
    \/ IsNa(c)
    \/ c = Dash
    \/ c.k = "str"
    \/ c.k = "inf"

\* lines 453-473: the (metric_code, float(value)) pairs the loop writes, in order
MetricWrites(row) ==
    SelectSeq([i \in 1..Len(MetricsMapping) |->
                  [metric_code |-> MetricsMapping[i], cell |-> row[MetricsMapping[i]]]],
              LAMBDA w : ~MetricSkipped(w.cell))

\* faulty variant of lines 476-488: a plain INSERT without ON CONFLICT
UpsertStatAppend(stats, player_id, slice_id, metric_code, metric_value) ==
    stats \cup {[player_id |-> player_id, slice_id |-> slice_id,
                 metric_code |-> metric_code, metric_value |-> metric_value]}

\* lines 476-488: INSERT INTO player_statistics ... ON CONFLICT (player_id,
\* slice_id, metric_code) DO UPDATE SET metric_value = EXCLUDED.metric_value
UpsertStat(stats, player_id, slice_id, metric_code, metric_value) ==
    {x \in stats : ~(/\ x.player_id = player_id
                     /\ x.slice_id = slice_id
                     /\ x.metric_code = metric_code)}
    \cup {[player_id |-> player_id, slice_id |-> slice_id,
           metric_code |-> metric_code, metric_value |-> metric_value]}

\* faulty variant of the metric loop: the player's values of the slice are
\* deleted before the row's values are inserted
UpsertStatsReplacing(stats, player_id, slice_id, writes) ==
    {x \in stats : ~(x.player_id = player_id /\ x.slice_id = slice_id)}
    \cup {[player_id |-> player_id, slice_id |-> slice_id,
           metric_code |-> writes[k].metric_code,
           metric_value |-> writes[k].cell.n] : k \in 1..Len(writes)}

\* faulty variant of the metric loop: the conflict target leaves out the
\* slice, so the row's values replace the player's values of every slice
UpsertStatsAnySlice(stats, player_id, slice_id, writes) ==
    {x \in stats : ~(/\ x.player_id = player_id
                     /\ \E k \in 1..Len(writes) : writes[k].metric_code = x.metric_code)}
    \cup {[player_id |-> player_id, slice_id |-> slice_id,
           metric_code |-> writes[k].metric_code,
           metric_value |-> writes[k].cell.n] : k \in 1..Len(writes)}

\* faulty variant of the metric loop: the writes go under another slice id
UpsertStatsElsewhere(stats, player_id, slice_id, writes) ==
    stats \cup {[player_id |-> player_id, slice_id |-> slice_id + 1,
                 metric_code |-> writes[k].metric_code,
                 metric_value |-> writes[k].cell.n] : k \in 1..Len(writes)}

\* lines 453-490: the metric loop of one row
RECURSIVE UpsertStats(_, _, _, _)
UpsertStats(stats, player_id, slice_id, writes) ==
    IF writes = <<>> THEN stats
    ELSE UpsertStats(UpsertStat(stats, player_id, slice_id,
                                Head(writes).metric_code, FloatOf(Head(writes).cell)),
                     player_id, slice_id, Tail(writes))

\* A statement of the row may raise a database error (value out of range,
\* constraint violation, lost connection): "player" is the players INSERT,
\* "stat" the first player_statistics INSERT.
DbFaults == {"none", "player", "stat"}

\* _load_player_row: what one call does to the transaction.
\*   raised: an exception leaves the function (load_file catches it)
\*   failed: a statement raised, so PostgreSQL aborted the transaction
LoadPlayerRow(t, row, tournament_id, slice_id, fault) ==
    LET v == ParseRow(row, tournament_id)
        position_id == PositionId(v.position_code)
        up == UpsertPlayer(t.players, v, Val(position_id))
        writes == MetricWrites(row)
        same == [tables |-> t, raised |-> FALSE, failed |-> FALSE,
                 stats_count |-> 0, player_id |-> None]
    IN  IF ParseRaises(row) THEN [same EXCEPT !.raised = TRUE]
        ELSE IF position_id = None THEN same
        ELSE IF fault = "player" THEN [same EXCEPT !.raised = TRUE, !.failed = TRUE]
        ELSE IF fault = "stat" /\ writes # <<>>
             THEN [tables |-> [t EXCEPT !.players = up.players],
                   raised |-> TRUE, failed |-> TRUE,
                   stats_count |-> 0, player_id |-> Some(up.player_id)]
        ELSE [tables |-> [t EXCEPT !.players = up.players,
                                   !.stats = UpsertStats(t.stats, up.player_id,
                                                         slice_id, writes)],
              raised |-> FALSE, failed |-> FALSE,
              stats_count |-> Len(writes), player_id |-> Some(up.player_id)]

-----------------------------------------------------------------------------
(* Inputs *)

BaseRow ==
    [age |-> Num(17), height |-> Num(180), weight |-> Num(75),
     name |-> "Ivanov", team |-> "CSKA", pos |-> "FW", cit |-> Str("RUS"),
     goals |-> Num(5), xg |-> Num(3)]

\* the same player again: no height, a new weight, no citizenship, other metrics
SameIdentityRow ==
    [BaseRow EXCEPT !.height = NaN, !.weight = Num(80), !.cit = NaN,
                    !.goals = Num(7), !.xg = Dash]

\* the age is missing, so birth_year is NULL
NoAgeRow == [BaseRow EXCEPT !.age = NaN, !.height = Dash, !.xg = Inf]

\* the player under another team
OtherTeamRow == [BaseRow EXCEPT !.team = "Spartak", !.pos = "MF", !.goals = Num(7)]

\* a position code the positions table does not hold
UnknownPositionRow == [BaseRow EXCEPT !.pos = "XX"]

\* int('abc') raises ValueError
BadHeightRow == [BaseRow EXCEPT !.height = Str("abc")]

\* metric cells that are not stored: infinity, a text, an empty cell
InfGoalsRow == [BaseRow EXCEPT !.goals = Inf, !.xg = Num(4)]
TextGoalsRow == [BaseRow EXCEPT !.goals = Str("abc"), !.xg = NaN]

SliceRows == {BaseRow}

TeamRows == {BaseRow, OtherTeamRow}

MetricRows == {SameIdentityRow, InfGoalsRow, TextGoalsRow}

MergeRows == {BaseRow, SameIdentityRow}

AllRows == {BaseRow, SameIdentityRow, NoAgeRow, OtherTeamRow,
            UnknownPositionRow, BadHeightRow}

FilesOf(rows) == UNION {[1..n -> rows] : n \in 0..MaxRows}

SliceTypes == {"TOTAL", "PER90"}

\* load_file arguments; period_value may be None for SEASON only (the round
\* endpoint always passes str(round_number))
SliceArgs ==
    [tournament_id : Tournaments, slice_type : SliceTypes,
     period_type : {"SEASON"}, period_value : {None, Some("2025"), Some("2026")},
     force_new_season : BOOLEAN]
    \cup
    [tournament_id : Tournaments, slice_type : SliceTypes,
     period_type : {"ROUND"}, period_value : {Some("31")},
     force_new_season : {FALSE}]

RowArgs ==
    [tournament_id : Tournaments, slice_type : {"TOTAL"},
     period_type : {"SEASON"}, period_value : {Some("2025")},
     force_new_season : {FALSE}]
    \cup
    [tournament_id : Tournaments, slice_type : {"TOTAL"},
     period_type : {"ROUND"}, period_value : {Some("31")},
     force_new_season : {FALSE}]

-----------------------------------------------------------------------------
(* Ingestion Orchestrator: DataLoader.load_file *)

NoArgs == [tournament_id |-> 0, slice_type |-> "TOTAL", period_type |-> "SEASON",
           period_value |-> None, force_new_season |-> FALSE]
NoCur == [period_value |-> "", slice_id |-> 0, is_new |-> FALSE]
NoCounts == [players_loaded |-> 0, stats_loaded |-> 0]
NoRet == [slice_id |-> 0, players_loaded |-> 0, stats_loaded |-> 0,
          status |-> "none", is_new_slice |-> FALSE]

\* the database sessions that may upload at the same time
Sessions == {1, 2}

\* what an open transaction has written: the rows it inserted or updated
NoOwn == [slices |-> {}, players |-> {}, stats |-> {}]

\* a session that runs no load
\*   found: the slice the lookup returned; own: the rows the open transaction
\*   wrote; skipped: the rows whose processing raised; overlapped: the other
\*   session was inside load_file when this one entered
NoSession == [pc |-> "idle", args |-> NoArgs, df |-> <<>>, idx |-> 1,
              period_value |-> "", now |-> 0, slice_id |-> 0, is_new |-> FALSE,
              failed |-> FALSE, found |-> None, own |-> NoOwn, skipped |-> {},
              overlapped |-> FALSE]

\* the state in which the stored tables are `tables` and nothing runs
InitWith(tables) ==
    /\ db = tables
    /\ tx = db
    /\ txFailed = FALSE
    /\ clock = 0
    /\ pc = "idle"
    /\ args = NoArgs
    /\ df = <<>>
    /\ idx = 1
    /\ cur = NoCur
    /\ counts = NoCounts
    /\ rowlog = <<>>
    /\ ret = NoRet
    /\ forceUsed = FALSE
    /\ first = None
    /\ req = None
    /\ chk = None
    /\ rounds = [initial |-> [t \in Tournaments |-> tables.tournaments[t].current_round],
                 succeeded |-> {}]
    /\ ses = [s \in Sessions |-> NoSession]

Init == \E season \in ConfiguredSeasons : InitWith(InitTables(season))

\* a caller enters load_file (lines 160-187); the session holds no open work.
\* A call is [req, args]: the endpoint request behind it, if any, and the
\* arguments load_file gets.
StartLoadWithin(maxLoads, calls, fileSet) ==
    /\ pc = "idle"
    /\ clock < maxLoads
    /\ \E c \in calls, f \in fileSet :
          /\ args' = c.args
          /\ req' = c.req
          /\ df' = f
          /\ forceUsed' = (forceUsed \/ c.args.force_new_season)
    /\ clock' = clock + 1
    /\ pc' = "start"
    /\ idx' = 1
    /\ cur' = NoCur
    /\ counts' = NoCounts
    /\ rowlog' = <<>>
    /\ ret' = NoRet
    /\ UNCHANGED <<rounds, ses, db, tx, txFailed, first, chk>>

\* load_file called directly, as the scripts of the repository do
StartLoadFrom(argSet, fileSet) ==
    StartLoadWithin(MaxLoads, {[args |-> a, req |-> None] : a \in argSet}, fileSet)

\* lines 193-196: the period value the slice is resolved with
PeriodValue(t, a) ==
    IF a.period_type = "SEASON" /\ a.period_value = None
    THEN GetTournamentSeason(t, a.tournament_id)
    ELSE Val(a.period_value)

\* lines 189-232: read the file, default the season, run the advisory check
\* (it only logs), resolve the slice, zero the counters
ResolveSlice ==
    /\ pc = "start"
    /\ LET period_value == PeriodValue(tx, args)
           checked == IF args.period_type = "SEASON" /\ ~args.force_new_season
                      THEN AfterLoaderCheck(tx, args.tournament_id, args.slice_type,
                                            period_value)
                      ELSE tx
       IN  \E r \in UpsertSlice(checked, clock, args.tournament_id,
                                 args.slice_type, args.period_type, period_value,
                                 args.force_new_season) :
              /\ tx' = r.tables
              /\ cur' = [period_value |-> period_value, slice_id |-> r.slice_id,
                         is_new |-> r.is_new]
    /\ pc' = "rows"
    /\ UNCHANGED <<rounds, ses, db, txFailed, clock, args, df, idx, counts, rowlog, ret, forceUsed,
                   first, req, chk>>

\* lines 234-251: one turn of the loop; an exception of the row is logged and
\* the loop continues.  Once the transaction is aborted every statement raises.
RowOutcome(t, failed, row, tournament_id, slice_id, fault) ==
    IF failed
    THEN [tables |-> t, raised |-> TRUE, failed |-> TRUE,
          stats_count |-> 0, player_id |-> None]
    ELSE LoadPlayerRow(t, row, tournament_id, slice_id, fault)

\* lines 243-244: the counters after a row
CountRow(c, r) ==
    IF r.raised THEN c
    ELSE [players_loaded |-> c.players_loaded + 1,
          stats_loaded |-> c.stats_loaded + r.stats_count]

LoadRow ==
    /\ pc = "rows"
    /\ idx <= Len(df)
    /\ \E fault \in DbFaults :
          LET r == RowOutcome(tx, txFailed, df[idx], args.tournament_id,
                              cur.slice_id, fault)
          IN  /\ tx' = r.tables
              /\ txFailed' = r.failed
              /\ counts' = CountRow(counts, r)
              /\ rowlog' = Append(rowlog, [raised |-> r.raised, failed |-> r.failed,
                                           player_id |-> r.player_id])
    /\ idx' = idx + 1
    /\ UNCHANGED <<rounds, ses, db, clock, pc, args, df, cur, ret, forceUsed, first, req, chk>>

\* faulty variant of line 253: what an aborted transaction wrote before the
\* failing statement is committed all the same
CommittedAnyway(committed, t, failed) == t

\* line 253: COMMIT of an aborted transaction is answered with ROLLBACK and
\* raises nothing
Committed(committed, t, failed) == IF failed THEN committed ELSE t

\* lines 253-262: commit and return the counts
Commit ==
    /\ pc = "rows"
    /\ idx > Len(df)
    /\ db' = Committed(db, tx, txFailed)
    /\ tx' = db'
    /\ txFailed' = FALSE
    /\ pc' = "done"
    /\ ret' = [status |-> "ok", players_loaded |-> counts.players_loaded,
               stats_loaded |-> counts.stats_loaded, slice_id |-> cur.slice_id,
               is_new_slice |-> cur.is_new]
    /\ UNCHANGED <<rounds, ses, clock, args, df, idx, cur, counts, rowlog, forceUsed, first, req, chk>>

\* faulty variant of line 265: the rollback is left out
KeepsTransaction(committed, t) == t

\* line 265: self.db.rollback(): what the session sees afterwards
AfterRollback(committed, t) == committed

\* lines 264-267: an exception escaped the per-row handling (read_excel, a
\* statement of the slice resolution, or the commit raised): roll back, re-raise
FailLoad ==
    /\ \/ pc = "start"
       \/ pc = "rows" /\ idx > Len(df)
    /\ tx' = AfterRollback(db, tx)
    /\ db' = db
    /\ txFailed' = FALSE
    /\ pc' = "failed"
    /\ ret' = [NoRet EXCEPT !.status = "raised"]
    /\ UNCHANGED <<rounds, ses, clock, args, df, idx, cur, counts, rowlog, forceUsed, first, req, chk>>

\* the call is over: its arguments, locals and result are gone
Finish ==
    /\ pc \in {"done", "failed"}
    /\ (pc = "done" /\ req # None /\ Val(req).path = "upload/round")
          => Val(req).response # "none"
    /\ pc' = "idle"
    /\ args' = NoArgs
    /\ df' = <<>>
    /\ idx' = 1
    /\ cur' = NoCur
    /\ counts' = NoCounts
    /\ rowlog' = <<>>
    /\ ret' = NoRet
    /\ first' = None
    /\ req' = None
    /\ chk' = None
    /\ UNCHANGED <<rounds, ses, db, tx, txFailed, clock, forceUsed>>

StartLoad == StartLoadFrom(SliceArgs, FilesOf(SliceRows))

Next ==
    \/ StartLoad
    \/ ResolveSlice
    \/ LoadRow
    \/ Commit
    \/ FailLoad
    \/ Finish

Spec == Init /\ [][Next]_vars

\* the same engine on one season and one round, fed with two rows of one player
StartLoadMerge == StartLoadFrom(RowArgs, FilesOf(MergeRows))

NextMerge ==
    \/ StartLoadMerge
    \/ ResolveSlice
    \/ LoadRow
    \/ Commit
    \/ FailLoad
    \/ Finish

SpecMerge == Init /\ [][NextMerge]_vars

\* the same engine fed with a row that goes through and a row whose parsing raises
SkipRows == {OtherTeamRow, BadHeightRow}

StartLoadSkips == StartLoadFrom(RowArgs, FilesOf(SkipRows))

NextSkips ==
    \/ StartLoadSkips
    \/ ResolveSlice
    \/ LoadRow
    \/ Commit
    \/ FailLoad
    \/ Finish

SpecSkips == Init /\ [][NextSkips]_vars

\* the same engine on one season and one round, fed with every kind of metric cell
StartLoadMetrics == StartLoadFrom(RowArgs, FilesOf(MetricRows))

NextMetrics ==
    \/ StartLoadMetrics
    \/ ResolveSlice
    \/ LoadRow
    \/ Commit
    \/ FailLoad
    \/ Finish

SpecMetrics == Init /\ [][NextMetrics]_vars

\* the same engine on one season and one round, fed with one player under two teams
StartLoadTeams == StartLoadFrom(RowArgs, FilesOf(TeamRows))

NextTeams ==
    \/ StartLoadTeams
    \/ ResolveSlice
    \/ LoadRow
    \/ Commit
    \/ FailLoad
    \/ Finish

SpecTeams == Init /\ [][NextTeams]_vars

\* the same engine on one season and one round, fed with every kind of row
StartLoadRows == StartLoadFrom(RowArgs, FilesOf(AllRows))

NextRows ==
    \/ StartLoadRows
    \/ ResolveSlice
    \/ LoadRow
    \/ Commit
    \/ FailLoad
    \/ Finish

SpecRows == Init /\ [][NextRows]_vars

\* the caller runs the load that just returned once more: same file, same
\* arguments
Reload ==
    /\ pc = "done"
    /\ first = None
    /\ clock < MaxLoads
    /\ first' = Some([tables |-> db,
                      clean |-> \A i \in 1..Len(rowlog) : ~rowlog[i].failed])
    /\ clock' = clock + 1
    /\ pc' = "start"
    /\ idx' = 1
    /\ cur' = NoCur
    /\ counts' = NoCounts
    /\ rowlog' = <<>>
    /\ ret' = NoRet
    /\ UNCHANGED <<rounds, ses, db, tx, txFailed, args, df, forceUsed, req, chk>>

NextTwice ==
    \/ StartLoadRows
    \/ Reload
    \/ ResolveSlice
    \/ LoadRow
    \/ Commit
    \/ FailLoad
    \/ Finish

SpecTwice == Init /\ [][NextTwice]_vars

-----------------------------------------------------------------------------
(* The check-new-season endpoint: api/upload.py check_new_season *)

MaxCheckLoads == 3

\* faulty variant of upload.py 687-698: the query resets the upload timestamps
SeasonCheckTouches(t, tournament_id, slice_type, new_season) ==
    [t EXCEPT !.slices =
        {IF s \in SeasonSlices(t, tournament_id, slice_type)
            THEN [s EXCEPT !.uploaded_at = 0] ELSE s : s \in t.slices}]

\* upload.py 687-698: the tables after the SELECT of the endpoint
AfterEndpointCheck(t, tournament_id, slice_type, new_season) == t

\* upload.py 687-700: the rows fetchone() may return (one unless timestamps tie)
LatestSeasonSlices(t, tournament_id, slice_type) ==
    LET c == SeasonSlices(t, tournament_id, slice_type)
    IN  {x \in c : \A y \in c : y.uploaded_at <= x.uploaded_at}

\* upload.py 702-724: the responses of the endpoint; `read` is the id of the
\* slice the row came from (history, not part of the response)
CheckNewSeasonResponses(t, tournament_id, slice_type, new_season) ==
    LET rows == LatestSeasonSlices(t, tournament_id, slice_type)
    IN  IF rows # {}
        THEN {[needs_new_season |-> (row.period_value # new_season),
               current_season |-> Some(row.period_value),
               new_season |-> new_season,
               tournament_id |-> tournament_id,
               slice_type |-> slice_type,
               read |-> Some(row.slice_id)] : row \in rows}
        ELSE {[needs_new_season |-> TRUE,
               current_season |-> None,
               new_season |-> new_season,
               tournament_id |-> tournament_id,
               slice_type |-> slice_type,
               read |-> None]}

CheckSeasons == {"2025", "2026"}

\* GET /check-new-season/{tournament_id}: a request of its own session, at
\* any moment; it sees the committed tables
CheckNewSeason ==
    /\ \E tournament_id \in Tournaments, slice_type \in SliceTypes,
          new_season \in CheckSeasons :
          /\ db' = AfterEndpointCheck(db, tournament_id, slice_type, new_season)
          /\ \E r \in CheckNewSeasonResponses(db', tournament_id, slice_type, new_season) :
                chk' = Some([response |-> r, before |-> clock, idle |-> (pc = "idle")])
    /\ UNCHANGED <<rounds, ses, tx, txFailed, clock, pc, args, df, idx, cur, counts, rowlog, ret,
                   forceUsed, first, req>>

\* season uploads of one statistic kind, with or without force_new_season
CheckArgs ==
    [tournament_id : Tournaments, slice_type : {"TOTAL"},
     period_type : {"SEASON"}, period_value : {Some(v) : v \in CheckSeasons},
     force_new_season : BOOLEAN]

CheckFiles == {<<>>, <<BaseRow>>}

StartLoadCheck ==
    StartLoadWithin(MaxCheckLoads, {[args |-> a, req |-> None] : a \in CheckArgs},
                    CheckFiles)

NextCheck ==
    \/ StartLoadCheck
    \/ CheckNewSeason
    \/ ResolveSlice
    \/ LoadRow
    \/ Commit
    \/ FailLoad
    \/ Finish

SpecCheck == Init /\ [][NextCheck]_vars

-----------------------------------------------------------------------------
(* The season upload endpoints: api/upload.py upload_season_stats and        *)
(* upload_tournament_data, up to their load_file call                        *)

\* the season form field: left out, or a year
FormSeasons == {None, Some("2025"), Some("2026")}

\* upload.py 385-392: POST /upload-season-stats hands the season on as it came
SeasonStatsCall(tournament_id, slice_type, season, force_new_season) ==
    [args |-> [tournament_id |-> tournament_id, slice_type |-> slice_type,
               period_type |-> "SEASON", period_value |-> season,
               force_new_season |-> force_new_season],
     req |-> Some([season |-> season, path |-> "upload-season-stats"])]

\* upload.py 476-477: if season is None: season = str(datetime.now().year)
TournamentSeason(season) ==
    IF season = None THEN Some(YearStr(CurrentYear)) ELSE season

\* upload.py 494-501: POST /upload/tournament never forces a new slice
TournamentCall(tournament_id, slice_type, season) ==
    [args |-> [tournament_id |-> tournament_id, slice_type |-> slice_type,
               period_type |-> "SEASON", period_value |-> TournamentSeason(season),
               force_new_season |-> FALSE],
     req |-> Some([season |-> season, path |-> "upload/tournament"])]

UploadSeasonStats ==
    StartLoadWithin(MaxLoads,
                    {SeasonStatsCall(t, "TOTAL", season, force) :
                        t \in Tournaments, season \in FormSeasons, force \in BOOLEAN},
                    CheckFiles)

UploadTournamentData ==
    StartLoadWithin(MaxLoads,
                    {TournamentCall(t, "TOTAL", season) :
                        t \in Tournaments, season \in FormSeasons},
                    CheckFiles)

NextUpload ==
    \/ UploadSeasonStats
    \/ UploadTournamentData
    \/ ResolveSlice
    \/ LoadRow
    \/ Commit
    \/ FailLoad
    \/ Finish

SpecUpload == Init /\ [][NextUpload]_vars

-----------------------------------------------------------------------------
(* Round upload endpoint: upload_round_data                                  *)

\* the round_number form field (ge=1, le=50), cut down
RoundNumbers == {1, 2, 3}

\* str(round_number)
RoundStr(n) == IF n = 1 THEN "1" ELSE IF n = 2 THEN "2" ELSE IF n = 3 THEN "3" ELSE "other"

\* int(period_value) of a ROUND slice
RoundOf(v) == IF v = "1" THEN 1 ELSE IF v = "2" THEN 2 ELSE IF v = "3" THEN 3 ELSE 0

\* upload.py 600-607: POST /upload/round loads the file as period_type ROUND
\* with period_value str(round_number); the season field is not handed on
RoundCall(tournament_id, slice_type, round_number) ==
    [args |-> [tournament_id |-> tournament_id, slice_type |-> slice_type,
               period_type |-> "ROUND", period_value |-> Some(RoundStr(round_number)),
               force_new_season |-> FALSE],
     req |-> Some([season |-> None, path |-> "upload/round", response |-> "none",
                   round_number |-> round_number])]

\* GREATEST(a, b)
Greatest(a, b) == IF a >= b THEN a ELSE b

\* faulty variant of lines 610-618: current_round is set to the uploaded round
SetCurrentRound(t, tournament_id, round_number) ==
    [t EXCEPT !.tournaments[tournament_id].current_round = Some(round_number)]

\* upload.py 610-618: UPDATE tournaments SET current_round =
\* GREATEST(COALESCE(current_round, 0), :round_number) WHERE id = :tournament_id
RaiseCurrentRound(t, tournament_id, round_number) ==
    [t EXCEPT !.tournaments[tournament_id].current_round =
                  Some(Greatest(Val(Coalesce(@, Some(0))), round_number))]

\* the endpoint is between load_file's return and its own answer
RoundPending ==
    /\ pc = "done"
    /\ req # None
    /\ Val(req).path = "upload/round"
    /\ Val(req).response = "none"

\* upload.py 609-639: load_file has returned (its transaction is committed);
\* the UPDATE runs in a new transaction, is committed, and the endpoint
\* answers "success"
UpdateCurrentRound ==
    /\ RoundPending
    /\ db' = RaiseCurrentRound(tx, args.tournament_id, Val(req).round_number)
    /\ tx' = db'
    /\ req' = Some([Val(req) EXCEPT !.response = "success"])
    /\ rounds' = [rounds EXCEPT
                     !.succeeded = @ \cup {<<args.tournament_id, Val(req).round_number>>}]
    /\ UNCHANGED <<txFailed, clock, pc, args, df, idx, cur, counts, rowlog, ret,
                   forceUsed, first, chk, ses>>

\* upload.py 610-619, 641-652: the UPDATE or its commit raises (connection
\* lost, lock timeout): the handler answers HTTP 500; nothing undoes what
\* load_file committed
RoundUpdateFails ==
    /\ RoundPending
    /\ tx' = db
    /\ req' = Some([Val(req) EXCEPT !.response = "error"])
    /\ UNCHANGED <<db, txFailed, clock, pc, args, df, idx, cur, counts, rowlog, ret,
                   forceUsed, first, chk, rounds, ses>>

\* what the round endpoint has answered: an exception of load_file reaches
\* the handler of lines 643-652 too
RoundAnswer == IF pc = "failed" THEN "error" ELSE Val(req).response

\* current_round before the first upload: NULL, the seeded 0, or a round
SeededRounds == {None, Some(0), Some(2)}

InitRound ==
    \E season \in ConfiguredSeasons, current_round \in SeededRounds :
        InitWith(InitTablesAt(season, current_round))

RoundFiles == {<<>>, <<BaseRow>>}

UploadRoundData ==
    StartLoadWithin(MaxLoads,
                    {RoundCall(t, "TOTAL", n) : t \in Tournaments, n \in RoundNumbers},
                    RoundFiles)

\* a season upload between the round uploads
UploadSeasonBetween ==
    StartLoadWithin(MaxLoads,
                    {SeasonStatsCall(t, "TOTAL", Some("2025"), FALSE) : t \in Tournaments},
                    RoundFiles)

NextRound ==
    \/ UploadRoundData
    \/ UploadSeasonBetween
    \/ ResolveSlice
    \/ LoadRow
    \/ Commit
    \/ FailLoad
    \/ UpdateCurrentRound
    \/ RoundUpdateFails
    \/ Finish

SpecRound == InitRound /\ [][NextRound]_vars

-----------------------------------------------------------------------------
(* Concurrent uploads: two requests, each with its own database session      *)
(* (get_db), run load_file at the same time.  PostgreSQL, READ COMMITTED:    *)
(*  - a statement sees the committed rows and the rows its own transaction   *)
(*    wrote;                                                                 *)
(*  - a row a transaction inserted or updated is locked until the            *)
(*    transaction ends; an UPDATE or INSERT ... ON CONFLICT of another       *)
(*    transaction that hits the row waits, and then works on the committed   *)
(*    row;                                                                   *)
(*  - when two transactions wait for each other, PostgreSQL makes the        *)
(*    statement of one of them raise and aborts that transaction, which      *)
(*    releases its locks.                                                    *)
(* The files name players that are already stored, so the players statement  *)
(* takes its DO UPDATE branch.  Once a row holds the lock of its player no   *)
(* other transaction can hold one of the row's player_statistics keys, so a  *)
(* row is one step.  No statement fails for another reason than a deadlock.  *)

\* the load that filled the database before the concurrent uploads
SeedArgs ==
    [tournament_id |-> 0, slice_type |-> "TOTAL", period_type |-> "SEASON",
     period_value |-> Some("2025"), force_new_season |-> FALSE]

SeedFile == <<BaseRow, OtherTeamRow>>

\* lines 234-251 without database errors: the rows of a file, one after the other
RECURSIVE LoadRows(_, _, _, _)
LoadRows(t, rows, tournament_id, slice_id) ==
    IF rows = <<>> THEN t
    ELSE LoadRows(LoadPlayerRow(t, Head(rows), tournament_id, slice_id, "none").tables,
                  Tail(rows), tournament_id, slice_id)

\* load_file run alone and without database errors: the tables it may commit
LoadFile(t, now, a, f) ==
    {LoadRows(r.tables, f, a.tournament_id, r.slice_id) :
        r \in UpsertSlice(t, now, a.tournament_id, a.slice_type, a.period_type,
                          PeriodValue(t, a), a.force_new_season)}

\* one SEASON slice "2025" with the values of two players
SeededTables ==
    CHOOSE t \in LoadFile(InitTables(Some("2025")), 0, SeedArgs, SeedFile) : TRUE

InitConc == InitWith(SeededTables)

\* the variables of the single-session machine
SoloVars == <<tx, txFailed, pc, args, df, idx, cur, counts, rowlog, ret, forceUsed,
              first, req, chk, rounds>>

\* the ids of the slices of t
SliceIds(t) == {s.slice_id : s \in t.slices}

StatKeys(stats) == {<<x.player_id, x.slice_id, x.metric_code>> : x \in stats}

\* what a statement of a transaction sees: the committed rows, with the rows
\* the transaction wrote in place of their committed versions
View(t, own) ==
    [t EXCEPT
        !.slices = {x \in @ : x.slice_id \notin {y.slice_id : y \in own.slices}}
                   \cup own.slices,
        !.players = {x \in @ : x.player_id \notin {y.player_id : y \in own.players}}
                    \cup own.players,
        !.stats = {x \in @ : <<x.player_id, x.slice_id, x.metric_code>>
                                 \notin StatKeys(own.stats)}
                  \cup own.stats]

\* the ids the stat_slices sequence has handed out
SliceIdsInUse == SliceIds(db) \cup UNION {SliceIds(ses[s].own) : s \in Sessions}

\* the uploads of the concurrent requests: onto the stored season, onto a
\* season with no slice yet
ConcArgs ==
    [tournament_id : Tournaments, slice_type : {"TOTAL"},
     period_type : {"SEASON"}, period_value : {Some("2025"), Some("2026")},
     force_new_season : {FALSE}]

ConcRows == {BaseRow, SameIdentityRow, OtherTeamRow}

\* a request enters load_file in its own session (lines 160-187); the
\* sessions are numbered in the order in which they start
ConStart(s) ==
    /\ ses[s].pc = "idle"
    /\ \A o \in Sessions : o < s => ses[o].pc # "idle"
    /\ \E a \in ConcArgs, f \in FilesOf(ConcRows) :
          ses' = [ses EXCEPT ![s] =
                     [NoSession EXCEPT
                         !.pc = "lookup", !.args = a, !.df = f, !.now = clock + 1,
                         !.overlapped = \E o \in Sessions \ {s} :
                                           ses[o].pc \notin {"idle", "done"}]]
    /\ clock' = clock + 1
    /\ UNCHANGED <<db, SoloVars>>

\* lines 189-350: default the season, the advisory check, the SELECT of
\* _upsert_slice
ConLookup(s) ==
    /\ ses[s].pc = "lookup"
    /\ LET me == ses[s]
           seen == View(db, me.own)
           period_value == PeriodValue(seen, me.args)
           existing == IF LooksForExisting(me.args.period_type, me.args.force_new_season)
                       THEN ExistingSlices(seen, me.args.tournament_id, me.args.slice_type,
                                           me.args.period_type, period_value)
                       ELSE {}
       IN  \E found \in (IF existing = {} THEN {None}
                         ELSE {Some(e.slice_id) : e \in existing}) :
              ses' = [ses EXCEPT ![s] = [me EXCEPT !.pc = "write", !.found = found,
                                                   !.period_value = period_value]]
    /\ UNCHANGED <<db, clock, SoloVars>>

\* the next statement of session s waits for a row lock of session o
BlockedBy(s, o) ==
    LET me == ses[s]
    IN  \/ /\ me.pc = "write"
           /\ me.found # None
           /\ Val(me.found) \in SliceIds(ses[o].own)
        \/ /\ me.pc = "rows"
           /\ me.idx <= Len(me.df)
           /\ ~me.failed
           /\ ~ParseRaises(me.df[me.idx])
           /\ PositionId(me.df[me.idx].pos) # None
           /\ PlayerConflicts(ses[o].own.players,
                              ParseRow(me.df[me.idx], me.args.tournament_id)) # {}

Blocked(s) == \E o \in Sessions \ {s} : BlockedBy(s, o)

\* lines 350-379: UPDATE the slice found, or INSERT a new one
ConWriteSlice(s) ==
    /\ ses[s].pc = "write"
    /\ ~Blocked(s)
    /\ LET me == ses[s]
           a == me.args
           seen == View(db, me.own)
           new_id == NextId(SliceIdsInUse)
           slices == IF me.found # None
                     THEN UpdateSlice(seen.slices, Val(me.found), me.now,
                                      Description(a.slice_type, a.period_type,
                                                  me.period_value, TRUE))
                     ELSE InsertSlice(seen.slices, new_id, a.tournament_id, a.slice_type,
                                      a.period_type, me.period_value, me.now)
           slice_id == IF me.found # None THEN Val(me.found) ELSE new_id
       IN  ses' = [ses EXCEPT ![s] =
                      [me EXCEPT !.pc = "rows", !.slice_id = slice_id,
                                 !.is_new = (me.found = None),
                                 !.own.slices = {x \in slices : x.slice_id = slice_id}]]
    /\ UNCHANGED <<db, clock, SoloVars>>

\* the rows of `tables` the transaction has written, after a row that
\* resolved player_id and wrote the metrics of `row`
Owned(tables, own, player_id, slice_id, row) ==
    [slices |-> own.slices,
     players |-> {p \in tables.players :
                     \/ p.player_id \in {q.player_id : q \in own.players}
                     \/ Some(p.player_id) = player_id},
     stats |-> {x \in tables.stats :
                   \/ <<x.player_id, x.slice_id, x.metric_code>> \in StatKeys(own.stats)
                   \/ /\ Some(x.player_id) = player_id
                      /\ x.slice_id = slice_id
                      /\ \E k \in 1..Len(MetricWrites(row)) :
                            MetricWrites(row)[k].metric_code = x.metric_code}]

\* lines 234-251: one turn of the loop in session s
ConRow(s) ==
    /\ ses[s].pc = "rows"
    /\ ses[s].idx <= Len(ses[s].df)
    /\ ~Blocked(s)
    /\ LET me == ses[s]
           row == me.df[me.idx]
           r == RowOutcome(View(db, me.own), me.failed, row, me.args.tournament_id,
                           me.slice_id, "none")
       IN  ses' = [ses EXCEPT ![s] =
                      [me EXCEPT !.idx = me.idx + 1,
                                 !.skipped = IF r.raised THEN @ \cup {me.idx} ELSE @,
                                 !.own = IF r.raised THEN @
                                         ELSE Owned(r.tables, @, r.player_id,
                                                    me.slice_id, row)]]
    /\ UNCHANGED <<db, clock, SoloVars>>

\* the two sessions wait for each other: PostgreSQL raises "deadlock
\* detected" in the players statement of one of them and aborts its
\* transaction; the per-row handler (lines 249-251) logs it and goes on
ConDeadlock(s) ==
    /\ ses[s].pc = "rows"
    /\ \E o \in Sessions \ {s} : BlockedBy(s, o) /\ BlockedBy(o, s)
    /\ ses' = [ses EXCEPT ![s] =
                  [@ EXCEPT !.idx = @ + 1, !.failed = TRUE, !.own = NoOwn,
                            !.skipped = @ \cup {ses[s].idx}]]
    /\ UNCHANGED <<db, clock, SoloVars>>

\* line 253: the commit of session s
ConCommit(s) ==
    /\ ses[s].pc = "rows"
    /\ ses[s].idx > Len(ses[s].df)
    /\ db' = Committed(db, View(db, ses[s].own), ses[s].failed)
    /\ ses' = [ses EXCEPT ![s] = [@ EXCEPT !.pc = "done", !.own = NoOwn]]
    /\ UNCHANGED <<clock, SoloVars>>

NextConc ==
    \/ \E s \in Sessions : ConStart(s)
    \/ \E s \in Sessions : ConLookup(s)
    \/ \E s \in Sessions : ConWriteSlice(s)
    \/ \E s \in Sessions : ConRow(s)
    \/ \E s \in Sessions : ConDeadlock(s)
    \/ \E s \in Sessions : ConCommit(s)

SpecConc == InitConc /\ [][NextConc]_vars

-----------------------------------------------------------------------------
(* Vocabulary of the properties *)

\* the stored (player, slice, metric) -> value facts
Facts(t) == {<<x.player_id, x.slice_id, x.metric_code, x.metric_value>> : x \in t.stats}

SameStatKey(x, y) ==
    /\ x.player_id = y.player_id
    /\ x.slice_id = y.slice_id
    /\ x.metric_code = y.metric_code

SameIdentity(p, q) ==
    /\ p.full_name = q.full_name
    /\ p.birth_year = q.birth_year
    /\ p.team_name = q.team_name
    /\ p.tournament_id = q.tournament_id

SameSliceKey(s, tournament_id, slice_type, period_type, period_value) ==
    /\ s.tournament_id = tournament_id
    /\ s.slice_type = slice_type
    /\ s.period_type = period_type
    /\ s.period_value = period_value

\* the step is the slice resolution of the running load / a row / the commit
ResolveStep == pc = "start" /\ pc' = "rows"
RowStep == pc = "rows" /\ pc' = "rows" /\ idx' = idx + 1
CommitStep == pc = "rows" /\ pc' = "done"

\* the slices the running load's key matches in the transaction
KeyMatches ==
    {s \in tx.slices : SameSliceKey(s, args.tournament_id, args.slice_type,
                                    args.period_type, PeriodValue(tx, args))}

\* the resolution step created a slice: fresh id, is_new, nothing else touched
CreatedNewSlice ==
    /\ cur'.is_new
    /\ cur'.slice_id \notin SliceIds(tx)
    /\ tx.slices \subseteq tx'.slices
    /\ \E s \in tx'.slices \ tx.slices :
          /\ s.slice_id = cur'.slice_id
          /\ SameSliceKey(s, args.tournament_id, args.slice_type,
                          args.period_type, PeriodValue(tx, args))
    /\ Cardinality(tx'.slices) = Cardinality(tx.slices) + 1

\* what load_file returns is what the resolution found
ReturnsResolution ==
    CommitStep => /\ ret'.status = "ok"
                  /\ ret'.slice_id = cur.slice_id
                  /\ ret'.is_new_slice = cur.is_new

\* a committed slice stays stored, with its key
SlicesStay ==
    \A s \in db.slices : \E s2 \in db'.slices :
        /\ s2.slice_id = s.slice_id
        /\ SameSliceKey(s2, s.tournament_id, s.slice_type, s.period_type, s.period_value)

-----------------------------------------------------------------------------
(* C1: running load twice in a row with the same file and the same          *)
(* (tournament, stat kind, SEASON, period value), force_new_season=false,   *)
(* leaves after the second run exactly the facts and slices of the first    *)
(* run.  Stated for runs in which no statement raised a database error.     *)
C1_Idempotent ==
    (/\ pc = "done"
     /\ first # None
     /\ args.period_type = "SEASON"
     /\ ~args.force_new_season
     /\ Val(first).clean
     /\ \A i \in 1..Len(rowlog) : ~rowlog[i].failed)
    => /\ Facts(db) = Facts(Val(first).tables)
       /\ SliceIds(db) = SliceIds(Val(first).tables)
       /\ ~ret.is_new_slice

\* at most one value per (player, slice, metric code)
UniqueStatKeys(t) == \A x, y \in t.stats : SameStatKey(x, y) => x = y

\* the one value the tables hold for the key is value
HoldsExactly(t, player_id, slice_id, metric_code, value) ==
    {x.metric_value : x \in {y \in t.stats : /\ y.player_id = player_id
                                              /\ y.slice_id = slice_id
                                              /\ y.metric_code = metric_code}}
    = {value}

(* C2: after every step there is at most one stored metric value per        *)
(* (player, slice, metric code), in the committed tables and in the open    *)
(* transaction; a row that writes a metric leaves exactly the row's value   *)
(* under the key, whether or not the key was stored before.                 *)
C2_UniqueMetricValue ==
    [][/\ UniqueStatKeys(db')
       /\ UniqueStatKeys(tx')
       /\ (RowStep /\ ~rowlog'[idx].raised /\ rowlog'[idx].player_id # None)
            => \A k \in 1..Len(MetricWrites(df[idx])) :
                  HoldsExactly(tx', Val(rowlog'[idx].player_id), cur.slice_id,
                               MetricWrites(df[idx])[k].metric_code,
                               MetricWrites(df[idx])[k].cell.n)
      ]_vars

\* a load is rewriting a committed value: the key exists with another value
C2_Witness ==
    /\ pc = "rows"
    /\ ~txFailed
    /\ \E x \in db.stats, y \in tx.stats :
          SameStatKey(x, y) /\ x.metric_value # y.metric_value

(* C3: at most one player record per identity tuple (full name, birth year, *)
(* team name, tournament), a null birth year included.                      *)
C3_UniqueIdentity ==
    \A p, q \in db.players : SameIdentity(p, q) => p = q

\* the attribute after a merge: the stored value when the row gives none
Merged(stored, supplied) == IF supplied = None THEN stored ELSE supplied

\* the row the step handles resolved to the stored player p
RowMergedInto(p) ==
    /\ RowStep
    /\ ~rowlog'[idx].raised
    /\ rowlog'[idx].player_id = Some(p.player_id)

(* C4: when a row resolves to an already stored player, each of height,     *)
(* weight and citizenship keeps the stored value if the row supplies null   *)
(* and takes the row's value otherwise; and a committed non-null attribute  *)
(* never becomes null.                                                      *)
C4_MergeMonotonic ==
    [][/\ \A p \in tx.players :
            RowMergedInto(p) =>
              \E q \in tx'.players :
                 /\ q.player_id = p.player_id
                 /\ q.height = Merged(p.height, IntOrNone(df[idx].height))
                 /\ q.weight = Merged(p.weight, IntOrNone(df[idx].weight))
                 /\ q.citizenship = Merged(p.citizenship, StrOrNone(df[idx].cit))
       /\ \A p \in db.players :
            \E q \in db'.players :
               /\ q.player_id = p.player_id
               /\ p.height # None => q.height # None
               /\ p.weight # None => q.weight # None
               /\ p.citizenship # None => q.citizenship # None
      ]_vars

\* a row without height and with a new weight was merged into the committed
\* player: the height is kept, the weight replaced
C4_Witness ==
    /\ pc = "rows"
    /\ idx > 1
    /\ df[idx - 1].height = NaN
    /\ ~rowlog[idx - 1].raised
    /\ \E p \in db.players, q \in tx.players :
          /\ rowlog[idx - 1].player_id = Some(p.player_id)
          /\ q.player_id = p.player_id
          /\ p.height = Some(180) /\ q.height = Some(180)
          /\ p.weight = Some(75) /\ q.weight = Some(80)

\* the resolution meets a season rollover: a SEASON slice of the tournament
\* and stat kind exists for another period value, none for the requested one
RolloverCase ==
    /\ args.period_type = "SEASON"
    /\ ~args.force_new_season
    /\ KeyMatches = {}
    /\ \E s \in tx.slices :
          /\ s.tournament_id = args.tournament_id
          /\ s.slice_type = args.slice_type
          /\ s.period_type = "SEASON"
          /\ s.period_value # PeriodValue(tx, args)

(* C5: a SEASON load for a period value that has no slice yet, while a      *)
(* SEASON slice for another period value exists, creates a new slice with a *)
(* new id and is_new=true; no stored slice disappears.                      *)
C5_RolloverCreates ==
    [][/\ (ResolveStep /\ RolloverCase) => CreatedNewSlice
       /\ ReturnsResolution
       /\ SlicesStay
      ]_vars

\* 2025 is committed and the running load has just created the 2026 slice
C5_Witness ==
    /\ pc = "rows"
    /\ args.period_type = "SEASON"
    /\ ~args.force_new_season
    /\ cur.is_new
    /\ \E s \in db.slices, n \in tx.slices :
          /\ s.tournament_id = args.tournament_id
          /\ s.slice_type = args.slice_type
          /\ s.period_type = "SEASON"
          /\ s.period_value # cur.period_value
          /\ n.slice_id = cur.slice_id
          /\ n.slice_id # s.slice_id
          /\ s \in tx.slices

\* at most one SEASON slice per (tournament, stat kind, period value)
OneSeasonSlicePerKey(t) ==
    \A s, u \in t.slices :
        (/\ s.period_type = "SEASON"
         /\ SameSliceKey(u, s.tournament_id, s.slice_type, s.period_type, s.period_value))
        => s.slice_id = u.slice_id

(* C6: a SEASON load without force_new whose key has a slice returns that   *)
(* slice's id with is_new=false and adds no slice; while force_new was      *)
(* never used there is at most one SEASON slice per key.                    *)
C6_SeasonReuse ==
    [][/\ (/\ ResolveStep
           /\ args.period_type = "SEASON"
           /\ ~args.force_new_season
           /\ KeyMatches # {})
          => /\ ~cur'.is_new
             /\ cur'.slice_id \in SliceIds([slices |-> KeyMatches])
             /\ SliceIds(tx') = SliceIds(tx)
             /\ Cardinality(tx'.slices) = Cardinality(tx.slices)
       /\ ReturnsResolution
       /\ ~forceUsed' => OneSeasonSlicePerKey(db') /\ OneSeasonSlicePerKey(tx')
      ]_vars

\* a load found the committed slice of its key and returned it
C6_Witness ==
    /\ pc = "done"
    /\ ~forceUsed
    /\ args.period_type = "SEASON"
    /\ ret.status = "ok"
    /\ ~ret.is_new_slice
    /\ Cardinality(db.slices) = 1
    /\ \E s \in db.slices : s.slice_id = ret.slice_id /\ s.uploaded_at = 2

\* the committed ROUND slices and the metric values attached to them
RoundSlices(t) == {s \in t.slices : s.period_type = "ROUND"}
RoundStats(t) == {x \in t.stats : x.slice_id \in SliceIds([slices |-> RoundSlices(t)])}

(* C7: every ROUND load creates a new slice with a new id, and no step of   *)
(* any load changes a committed ROUND slice or a metric value attached to   *)
(* one.                                                                     *)
C7_RoundNeverMerges ==
    [][/\ (ResolveStep /\ args.period_type = "ROUND") => CreatedNewSlice
       /\ RoundSlices(db) \subseteq RoundSlices(db')
       /\ RoundStats(db) \subseteq RoundStats(db')
       /\ ReturnsResolution
      ]_vars

\* two committed ROUND slices of one key, each with its own metric values
C7_Witness ==
    \E s, u \in db.slices :
        /\ s.period_type = "ROUND"
        /\ SameSliceKey(u, s.tournament_id, s.slice_type, s.period_type, s.period_value)
        /\ s.slice_id # u.slice_id
        /\ \E x, y \in db.stats : x.slice_id = s.slice_id /\ y.slice_id = u.slice_id

(* C8: with force_new the resolution always creates a new slice, is_new =   *)
(* true, and leaves every existing slice as it was.                         *)
C8_ForceNewCreates ==
    [][(ResolveStep /\ args.force_new_season) => CreatedNewSlice]_vars

\* forced although the key already had a slice: both are in the transaction
C8_Witness ==
    /\ pc = "rows"
    /\ args.force_new_season
    /\ cur.is_new
    /\ \E s \in db.slices, n \in tx.slices :
          /\ n.slice_id = cur.slice_id
          /\ s.slice_id # n.slice_id
          /\ SameSliceKey(s, n.tournament_id, n.slice_type, n.period_type, n.period_value)
          /\ s \in tx.slices

(* C9: when an exception escapes the per-row handling the load rolls back:  *)
(* the stored tables are those from before the load, the session sees them  *)
(* again, and the exception reaches the caller.                             *)
C9_BatchFailureNoEffect ==
    [][pc' = "failed" => /\ db' = db
                         /\ tx' = db
                         /\ ~txFailed'
                         /\ ret'.status = "raised"
      ]_vars

\* the commit of a load that had written a slice, a player and a metric raised
C9_Witness ==
    /\ pc = "failed"
    /\ ret.status = "raised"
    /\ cur.is_new
    /\ Len(df) > 0
    /\ \E i \in 1..Len(rowlog) : ~rowlog[i].raised /\ rowlog[i].player_id # None
    /\ cur.slice_id \notin SliceIds(db)
    /\ tx = db

\* the metric keys row i wrote for its player under the load's slice
RowKeysStored(i) ==
    \A w \in {MetricWrites(df[i])[k] : k \in 1..Len(MetricWrites(df[i]))} :
        \E x \in db.stats :
            /\ x.player_id = Val(rowlog[i].player_id)
            /\ x.slice_id = ret.slice_id
            /\ x.metric_code = w.metric_code

(* C10: when a row raises inside the per-row handler, the load still        *)
(* handles every later row and commits, and the player and metric writes of *)
(* every other row are in the committed tables.                             *)
C10_RowFailureIsolated ==
    (/\ pc = "done"
     /\ \E i \in 1..Len(rowlog) : rowlog[i].raised)
    => /\ ret.status = "ok"
       /\ Len(rowlog) = Len(df)
       /\ \A i \in 1..Len(rowlog) :
            (~rowlog[i].raised /\ rowlog[i].player_id # None)
            => /\ \E p \in db.players : p.player_id = Val(rowlog[i].player_id)
               /\ RowKeysStored(i)

\* the rows of the file whose position code the positions table holds and
\* whose handling did not raise
RowsWithPlayer == {i \in 1..Len(rowlog) : ~rowlog[i].raised /\ PositionId(df[i].pos) # None}

(* C11: a row whose position code matches no known position resolves no      *)
(* player and is not counted: when the load has committed, players_loaded is *)
(* the number of rows that were handled with a known position.               *)
C11_UnknownPositionSkipped ==
    (pc = "done")
    => /\ ret.status = "ok"
       /\ \A i \in 1..Len(rowlog) :
             PositionId(df[i].pos) = None => rowlog[i].player_id = None
       /\ ret.players_loaded = Cardinality(RowsWithPlayer)

\* np.isfinite
Finite(v) == v # Infinity

\* the values stored for the key
ValuesAt(t, player_id, slice_id, metric_code) ==
    {x.metric_value : x \in {y \in t.stats : /\ y.player_id = player_id
                                              /\ y.slice_id = slice_id
                                              /\ y.metric_code = metric_code}}

(* C12: every stored metric value is a finite number; a row stores each of   *)
(* its metric cells that holds a finite number, and a cell that is empty,    *)
(* '-', a text or an infinity stores nothing and leaves what the key held.   *)
C12_FiniteValues ==
    [][/\ \A x \in db'.stats \cup tx'.stats : Finite(x.metric_value)
       /\ (RowStep /\ ~rowlog'[idx].raised /\ rowlog'[idx].player_id # None)
            => \A k \in 1..Len(MetricsMapping) :
                 LET m == MetricsMapping[k]
                     c == df[idx][m]
                     pid == Val(rowlog'[idx].player_id)
                 IN  IF c.k = "num"
                     THEN ValuesAt(tx', pid, cur.slice_id, m) = {c.n}
                     ELSE ValuesAt(tx', pid, cur.slice_id, m)
                          = ValuesAt(tx, pid, cur.slice_id, m)
      ]_vars

\* a row with an infinite goals cell and xg 4 was handled in a new slice: its
\* xg is stored, no goals value is
C12_Witness ==
    /\ pc = "rows"
    /\ idx > 1
    /\ cur.is_new
    /\ df[idx - 1].goals = Inf
    /\ rowlog[idx - 1].player_id # None
    /\ ValuesAt(tx, Val(rowlog[idx - 1].player_id), cur.slice_id, "xg") = {4}
    /\ ValuesAt(tx, Val(rowlog[idx - 1].player_id), cur.slice_id, "goals") = {}

RECURSIVE SumOver(_, _)
SumOver(f, S) ==
    IF S = {} THEN 0
    ELSE LET i == CHOOSE j \in S : TRUE IN f[i] + SumOver(f, S \ {i})

\* the metric cells of row i that hold a finite number
NumericCells(i) ==
    Cardinality({k \in 1..Len(MetricsMapping) : df[i][MetricsMapping[k]].k = "num"})

\* the rows whose handling resolved a player and wrote its metrics
RowsResolved == {i \in 1..Len(rowlog) : ~rowlog[i].raised /\ rowlog[i].player_id # None}

(* C13: the counts load returns are exact: stats_loaded is the number of     *)
(* metric upserts executed, the numeric finite cells of the rows that were   *)
(* handled, and players_loaded is the number of rows whose player was        *)
(* resolved.                                                                 *)
C13_CountsExact ==
    (pc = "done")
    => /\ ret.stats_loaded = SumOver([i \in 1..Len(df) |-> NumericCells(i)], RowsResolved)
       /\ ret.players_loaded = Cardinality(RowsResolved)

\* the order of the positions of load_file
LoadTransitions ==
    {<<"idle", "start">>, <<"start", "rows">>, <<"rows", "done">>,
     <<"start", "failed">>, <<"rows", "failed">>,
     <<"done", "idle">>, <<"failed", "idle">>}

(* C14: a load goes START -> SLICE_RESOLVED -> rows -> COMMITTED or FAILED:  *)
(* the slice is resolved once, before the first row, and every row writes    *)
(* under that slice id; the committed tables change only in the commit,      *)
(* after the last row; a load that committed does not roll back and a load   *)
(* that rolled back does not commit.                                         *)
C14_LoadStateMachine ==
    [][/\ pc' # pc => <<pc, pc'>> \in LoadTransitions
       /\ ResolveStep => (idx = 1 /\ rowlog = <<>>)
       /\ (pc = "rows" /\ pc' # "idle") => cur' = cur
       /\ RowStep => \A x \in tx'.stats \ tx.stats : x.slice_id = cur.slice_id
       /\ db' # db => (CommitStep /\ Len(rowlog) = Len(df) /\ idx > Len(df))
       /\ pc' = "failed" => tx' = db
      ]_vars

\* a two-row load went through the resolution and both rows and committed
\* a new slice with the rows' values under it
C14_Witness ==
    /\ pc = "done"
    /\ Len(df) > 1
    /\ Len(rowlog) = Len(df)
    /\ ret.status = "ok"
    /\ ret.is_new_slice
    /\ ret.slice_id \in SliceIds(db)
    /\ \E x \in db.stats : x.slice_id = ret.slice_id

\* the step is a response of the check-new-season endpoint
CheckStep == chk' # chk /\ chk' # None

\* the resolution touched at most the slice it resolved
ResolutionFrame ==
    /\ tx'.players = tx.players
    /\ tx'.stats = tx.stats
    /\ tx'.tournaments = tx.tournaments
    /\ \A s \in tx.slices : s.slice_id # cur'.slice_id => s \in tx'.slices

(* C15: the season rollover check is read-only: a response of the            *)
(* check-new-season endpoint leaves the committed tables and the tables of   *)
(* the open transaction as they were, upload timestamps included; the        *)
(* loader's own check changes nothing either: the resolution step touches    *)
(* at most the slice it resolves.                                            *)
C15_CheckReadOnly ==
    [][/\ CheckStep => (db' = db /\ tx' = tx)
       /\ ResolveStep => ResolutionFrame
      ]_vars

\* the endpoint answered while slices, players and values were stored, the
\* latest slice being an update in place
C15_Witness ==
    /\ chk # None
    /\ Val(chk).response.read # None
    /\ db.players # {}
    /\ db.stats # {}
    /\ \E s \in db.slices : s.slice_id = Val(Val(chk).response.read) /\ s.uploaded_at > 1
    /\ Cardinality(db.slices) > 1

\* the SEASON slices of (tournament, stat kind) with the latest upload timestamp
LatestOf(t, tournament_id, slice_type) ==
    {s \in t.slices :
        /\ s.tournament_id = tournament_id
        /\ s.slice_type = slice_type
        /\ s.period_type = "SEASON"
        /\ \A u \in t.slices :
              (/\ u.tournament_id = tournament_id
               /\ u.slice_type = slice_type
               /\ u.period_type = "SEASON") => u.uploaded_at <= s.uploaded_at}

(* C16: the rollover check reports needs_new_season=true exactly when the    *)
(* SEASON slice of (tournament, stat kind) with the latest upload timestamp  *)
(* has a period value different from the candidate, and reports that         *)
(* slice's period value as the current one.                                  *)
C16_CheckSemantics ==
    [][CheckStep =>
         LET r == Val(chk').response
             latest == LatestOf(db, r.tournament_id, r.slice_type)
         IN  /\ r.needs_new_season <=> (\E s \in latest : s.period_value # r.new_season)
             /\ latest # {} => r.current_season \in {Some(s.period_value) : s \in latest}
             /\ CheckNewSeasonNeeded(db, r.tournament_id, r.slice_type, r.new_season)
                  \subseteq {s.period_value # r.new_season : s \in latest} \cup {FALSE}
      ]_vars

(* C17: when the endpoint reported needs_new_season=false and the next load  *)
(* is a SEASON load of the same tournament, stat kind and season without     *)
(* force_new_season, the load returns is_new_slice=false and the id of the   *)
(* slice the check read as the current one.                                  *)
C17_CheckThenLoadUpdates ==
    (/\ pc = "done"
     /\ chk # None
     /\ Val(chk).idle
     /\ Val(chk).before = clock - 1
     /\ ~Val(chk).response.needs_new_season
     /\ args.tournament_id = Val(chk).response.tournament_id
     /\ args.slice_type = Val(chk).response.slice_type
     /\ args.period_type = "SEASON"
     /\ args.period_value = Some(Val(chk).response.new_season)
     /\ ~args.force_new_season)
    => /\ ~ret.is_new_slice
       /\ Some(ret.slice_id) = Val(chk).response.read

\* the value x is one the file of the load wrote: some row of x's player
\* holds it in the cell of x's metric
FromThisFile(x) ==
    \E i \in RowsResolved :
        /\ rowlog[i].player_id = Some(x.player_id)
        /\ df[i][x.metric_code] = Num(x.metric_value)

(* C18: a season upload without force_new_season onto an existing slice      *)
(* fully overwrites its statistics: after the upload every metric value      *)
(* stored for the slice is one of the uploaded file.  Stated for loads in    *)
(* which no statement raised a database error.                               *)
C18_FullOverwrite ==
    (/\ pc = "done"
     /\ args.period_type = "SEASON"
     /\ ~args.force_new_season
     /\ ~ret.is_new_slice
     /\ \A i \in 1..Len(rowlog) : ~rowlog[i].failed)
    => \A x \in db.stats : x.slice_id = ret.slice_id => FromThisFile(x)

\* p is a stored player with the name, birth year and tournament of the row
\* but another team
SamePersonOtherTeam(p, row) ==
    /\ p.full_name = row.name
    /\ p.birth_year = BirthYear(row.age)
    /\ p.tournament_id = args.tournament_id
    /\ p.team_name # row.team

StatsOf(t, player_id) == {x \in t.stats : x.player_id = player_id}

(* C19: a row with the full name, birth year and tournament of a stored      *)
(* player but another team name resolves to a distinct player record with    *)
(* the row's team and its own metric values, and leaves the first player's   *)
(* record and metric values unchanged.                                       *)
C19_TeamChangeNewPlayer ==
    [][(RowStep /\ ~rowlog'[idx].raised /\ rowlog'[idx].player_id # None)
       => \A p \in tx.players :
            SamePersonOtherTeam(p, df[idx])
            => /\ Val(rowlog'[idx].player_id) # p.player_id
               /\ p \in tx'.players
               /\ StatsOf(tx', p.player_id) = StatsOf(tx, p.player_id)
               /\ \E q \in tx'.players :
                     /\ q.player_id = Val(rowlog'[idx].player_id)
                     /\ q.team_name = df[idx].team
                     /\ q.full_name = p.full_name
                     /\ q.birth_year = p.birth_year
               /\ \A k \in 1..Len(MetricWrites(df[idx])) :
                     ValuesAt(tx', Val(rowlog'[idx].player_id), cur.slice_id,
                              MetricWrites(df[idx])[k].metric_code)
                     = {MetricWrites(df[idx])[k].cell.n}
      ]_vars

\* the player is committed under CSKA and under Spartak, each record with
\* its own goals value in the same slice
C19_Witness ==
    \E p, q \in db.players :
        /\ p.full_name = q.full_name
        /\ p.birth_year = q.birth_year
        /\ p.birth_year # None
        /\ p.tournament_id = q.tournament_id
        /\ p.team_name = "CSKA"
        /\ q.team_name = "Spartak"
        /\ p.player_id # q.player_id
        /\ \E s \in db.slices :
              /\ ValuesAt(db, p.player_id, s.slice_id, "goals") = {5}
              /\ ValuesAt(db, q.player_id, s.slice_id, "goals") = {7}

\* the tournament's configured season if one is set, else the calendar year
DefaultSeason(t, tournament_id) ==
    IF t.tournaments[tournament_id].season # None
    THEN Val(t.tournaments[tournament_id].season)
    ELSE YearStr(CurrentYear)

(* C20: when a SEASON upload gives no period value, on every upload path the *)
(* slice is resolved with the tournament's configured season if one is set   *)
(* and with the current calendar year otherwise.                             *)
C20_DefaultSeason ==
    (/\ pc = "rows"
     /\ req # None
     /\ Val(req).season = None)
    => /\ cur.period_value = DefaultSeason(db, args.tournament_id)
       /\ \E s \in tx.slices :
             /\ s.slice_id = cur.slice_id
             /\ s.period_type = "SEASON"
             /\ s.period_value = DefaultSeason(db, args.tournament_id)

\* the rows in log supplied a number for the key of x under the resolved slice
WrittenBy(log, x) ==
    /\ x.slice_id = cur.slice_id
    /\ \E i \in 1..Len(log) :
          /\ ~log[i].raised
          /\ log[i].player_id = Some(x.player_id)
          /\ ~MetricSkipped(df[i][x.metric_code])

\* every fact and every player of before is in after; a fact keeps its value
\* unless the rows in log wrote its key
StillStored(before, after, log) ==
    /\ \A x \in before.stats :
          \E y \in after.stats :
             /\ SameStatKey(x, y)
             /\ (y.metric_value = x.metric_value \/ WrittenBy(log, x))
    /\ \A p \in before.players :
          \E q \in after.players :
             /\ q.player_id = p.player_id
             /\ SameIdentity(p, q)

(* C23: a load never deletes a metric value: every (player, slice, metric)   *)
(* fact stored before a load is still stored after it, with the same value   *)
(* unless the load rewrote that exact key, and every player stored before    *)
(* is still stored.  Checked on what is committed at every step and on what  *)
(* the transaction holds after every row that did not abort it.              *)
C23_NeverDeletes ==
    [][/\ StillStored(db, db', rowlog)
       /\ ((RowStep /\ ~txFailed') => StillStored(tx, tx', rowlog'))
      ]_vars

\* a load onto an existing slice is committed: one value of the slice was
\* rewritten by the file, another one is of an earlier load and still there
C23_Witness ==
    /\ pc = "done"
    /\ ~ret.is_new_slice
    /\ \E x, y \in db.stats :
          /\ x.slice_id = ret.slice_id
          /\ y.slice_id = ret.slice_id
          /\ WrittenBy(rowlog, x)
          /\ FromThisFile(x)
          /\ ~WrittenBy(rowlog, y)
          /\ ~FromThisFile(y)

\* the metric values stored under the slices other than slice_id
OtherSliceStats(t, slice_id) == {x \in t.stats : x.slice_id # slice_id}

(* C24: a load writes metric values only under the slice it resolved: the    *)
(* metric values attached to every other slice are identical before and      *)
(* after the load, also when the same player appears in both slices.         *)
C24_OnlyResolvedSlice ==
    [][/\ RowStep => OtherSliceStats(tx', cur.slice_id) = OtherSliceStats(tx, cur.slice_id)
       /\ CommitStep => OtherSliceStats(db', cur.slice_id) = OtherSliceStats(db, cur.slice_id)
       /\ ResolveStep => tx'.stats = tx.stats
       /\ ~CommitStep => db'.stats = db.stats
      ]_vars

\* the player has a goals value under the slice just loaded, written by the
\* file, and another goals value under another slice
C24_Witness ==
    /\ pc = "done"
    /\ \E x, y \in db.stats :
          /\ x.player_id = y.player_id
          /\ x.metric_code = y.metric_code
          /\ x.slice_id = ret.slice_id
          /\ y.slice_id # ret.slice_id
          /\ x.metric_value # y.metric_value
          /\ FromThisFile(x)

\* the rows of the running load that were skipped because their processing raised
RowsSkipped == {i \in 1..Len(rowlog) : rowlog[i].raised}

(* C26: a row that is skipped because its processing raised contributes      *)
(* nothing to the committed state, at whatever step of the row the failure   *)
(* occurs: the row leaves the transaction as it was or aborted, and every    *)
(* player record and metric value the commit adds or changes is of a row     *)
(* that went through.                                                        *)
C26_SkippedRowNoEffect ==
    [][/\ (RowStep /\ rowlog'[idx].raised) => (tx' = tx \/ txFailed')
       /\ CommitStep =>
            /\ \A q \in db'.players \ db.players :
                  \E i \in (1..Len(rowlog)) \ RowsSkipped :
                     rowlog[i].player_id = Some(q.player_id)
            /\ \A y \in db'.stats \ db.stats :
                  /\ y.slice_id = cur.slice_id
                  /\ \E i \in (1..Len(rowlog)) \ RowsSkipped :
                        /\ rowlog[i].player_id = Some(y.player_id)
                        /\ df[i][y.metric_code] = Num(y.metric_value)
      ]_vars

\* a file with a row whose parsing raised and a row that went through is
\* committed: the second row's player and values are stored, nothing of the
\* skipped row's player is
C26_Witness ==
    /\ pc = "done"
    /\ \E i, j \in 1..Len(rowlog) :
          /\ rowlog[i].raised
          /\ df[i] = BadHeightRow
          /\ ~rowlog[j].raised
          /\ \E y \in db.stats : rowlog[j].player_id = Some(y.player_id)
    /\ \A p \in db.players : p.team_name # BadHeightRow.team

(* C28: after a force_new_season load created a second SEASON slice with the *)
(* key of an existing one, every later load with force_new_season=false for  *)
(* that key resolves to one and the same slice, the most recently created    *)
(* one, and reports is_new=false.                                            *)
C28_DuplicateResolvesToLatest ==
    (/\ pc = "rows"
     /\ args.period_type = "SEASON"
     /\ ~args.force_new_season
     /\ Cardinality(KeyMatches) >= 2)
    => /\ ~cur.is_new
       /\ \A s \in KeyMatches : s.slice_id <= cur.slice_id

(* C29: the two implementations of the rollover check agree for every stored *)
(* state, the one with no SEASON slice included, and every candidate         *)
(* season: the needs_new_season the endpoint answers is what the loader's    *)
(* _check_new_season_needed returns.                                         *)
C29_ChecksAgree ==
    \A tournament_id \in Tournaments, slice_type \in SliceTypes, new_season \in CheckSeasons :
        {r.needs_new_season :
            r \in CheckNewSeasonResponses(db, tournament_id, slice_type, new_season)}
        = CheckNewSeasonNeeded(db, tournament_id, slice_type, new_season)

RECURSIVE MaxOf(_)
MaxOf(S) ==
    IF S = {} THEN 0
    ELSE LET x == CHOOSE y \in S : TRUE
         IN  Greatest(x, MaxOf(S \ {x}))

\* current_round with NULL counted as 0
CurrentRound(t, tournament_id) ==
    Val(Coalesce(t.tournaments[tournament_id].current_round, Some(0)))

(* C25: after any sequence of round uploads for a tournament, in any order,  *)
(* the tournament's current_round is the maximum of its initial value (null  *)
(* counted as 0) and the round numbers of all successful round uploads; a    *)
(* lower round never decreases it and season uploads leave it unchanged.     *)
C25_CurrentRoundIsMax ==
    \A t \in Tournaments :
        CurrentRound(db, t)
        = MaxOf({Val(Coalesce(rounds.initial[t], Some(0)))}
                \cup {call[2] : call \in {c \in rounds.succeeded : c[1] = t}})

\* round 3 was uploaded with success, then round 1: current_round is still 3
C25_Witness ==
    /\ rounds.succeeded = {<<0, 3>>, <<0, 1>>}
    /\ rounds.initial[0] \in {None, Some(2)}
    /\ req # None
    /\ Val(req).path = "upload/round"
    /\ Val(req).round_number = 1
    /\ Val(req).response = "success"
    /\ CurrentRound(db, 0) = 3

\* the ROUND slices the committed tables hold
RoundSlicesOf(t, tournament_id) ==
    {s \in t.slices : s.tournament_id = tournament_id /\ s.period_type = "ROUND"}

(* C30: the round upload endpoint is all-or-nothing: the round's slice and   *)
(* metric values and the current_round update become durable together.  In  *)
(* no state has the endpoint answered a failure while the slice its load     *)
(* wrote stays committed, and in no state is a ROUND slice committed while   *)
(* current_round is below that round.                                        *)
C30_RoundAllOrNothing ==
    /\ (/\ req # None
        /\ Val(req).path = "upload/round"
        /\ pc \in {"done", "failed"}
        /\ RoundAnswer = "error")
       => ~\E s \in db.slices :
              /\ s.period_type = "ROUND"
              /\ s.period_value = RoundStr(Val(req).round_number)
              /\ s.uploaded_at = clock
    /\ \A t \in Tournaments :
          \A s \in RoundSlicesOf(db, t) : CurrentRound(db, t) >= RoundOf(s.period_value)

\* both concurrent uploads have committed
BothDone == \A s \in Sessions : ses[s].pc = "done"

\* the (player, metric, value) triples the rows of session s's file wrote
FileWrites(s) ==
    UNION {{<<p.player_id, MetricWrites(ses[s].df[i])[k].metric_code,
              FloatOf(MetricWrites(ses[s].df[i])[k].cell)>> :
               p \in PlayerConflicts(db.players,
                                     ParseRow(ses[s].df[i], ses[s].args.tournament_id)),
               k \in 1..Len(MetricWrites(ses[s].df[i]))} :
           i \in (1..Len(ses[s].df)) \ ses[s].skipped}

(* C21: two uploads with force_new_season=false run concurrently against     *)
(* the same existing SEASON slice.  Under every interleaving, once both have  *)
(* committed, the slice holds exactly one value per (player, metric) key,     *)
(* its keys are the keys it held before and the keys the two files wrote,     *)
(* each value under a written key is one that one of the two files wrote,     *)
(* and the other values are as before.                                        *)
C21_SameSliceConverges ==
    (BothDone /\ \A s \in Sessions : ses[s].args = SeedArgs)
    => LET slice_id == ses[1].slice_id
           stored == {x \in db.stats : x.slice_id = slice_id}
           before == {x \in SeededTables.stats : x.slice_id = slice_id}
           written == FileWrites(1) \cup FileWrites(2)
           keys == {<<w[1], w[2]>> : w \in written}
       IN  /\ ses[2].slice_id = slice_id
           /\ slice_id \in SliceIds(SeededTables)
           /\ UniqueStatKeys(db)
           /\ {<<x.player_id, x.metric_code>> : x \in stored}
              = {<<x.player_id, x.metric_code>> : x \in before} \cup keys
           /\ \A x \in stored :
                 IF <<x.player_id, x.metric_code>> \in keys
                 THEN <<x.player_id, x.metric_code, x.metric_value>> \in written
                 ELSE x \in before

\* the second upload entered while the first was running, both wrote the
\* goals of the same player of the existing slice with different values, and
\* both have committed
C21_Witness ==
    /\ BothDone
    /\ \A s \in Sessions : ses[s].args = SeedArgs
    /\ ses[2].overlapped
    /\ \E w1 \in FileWrites(1), w2 \in FileWrites(2) :
          /\ w1[1] = w2[1]
          /\ w1[2] = w2[2]
          /\ w1[3] # w2[3]
          /\ \E x \in db.stats :
                /\ x.slice_id = ses[1].slice_id
                /\ <<x.player_id, x.metric_code, x.metric_value>> = w2

\* the key of slice slice_id
SliceKeyOf(t, slice_id) ==
    LET s == CHOOSE x \in t.slices : x.slice_id = slice_id
    IN  <<s.tournament_id, s.slice_type, s.period_type, s.period_value>>

\* the metric values of t, each with the key of its slice
StatsBySliceKey(t) ==
    {<<SliceKeyOf(t, x.slice_id), x.player_id, x.metric_code, x.metric_value>> :
        x \in t.stats}

\* the stored players the file of session s names
TouchedBy(t, s) ==
    UNION {PlayerConflicts(t.players, ParseRow(ses[s].df[i], ses[s].args.tournament_id)) :
           i \in 1..Len(ses[s].df)}

\* the tables after the upload of session a and then the upload of session b,
\* one after the other
SerialResults(a, b) ==
    UNION {LoadFile(t, ses[b].now, ses[b].args, ses[b].df) :
           t \in LoadFile(SeededTables, ses[a].now, ses[a].args, ses[a].df)}

(* C22: concurrent uploads that target different slices are independent:     *)
(* under every interleaving the committed metric values of each slice and    *)
(* the attributes of every player touched by both files equal the result of  *)
(* running the two uploads one after the other in some order.                *)
C22_DifferentSlicesSerializable ==
    (BothDone /\ ses[1].args.period_value # ses[2].args.period_value)
    => \E t \in SerialResults(1, 2) \cup SerialResults(2, 1) :
          /\ StatsBySliceKey(db) = StatsBySliceKey(t)
          /\ TouchedBy(db, 1) \cap TouchedBy(db, 2) = TouchedBy(t, 1) \cap TouchedBy(t, 2)

(* C27: two uploads with force_new_season=false for the same (tournament,    *)
(* stat kind, SEASON, period value) run concurrently while no slice exists   *)
(* for that key: exactly one slice is created and both uploads attach their  *)
(* values to it, under every interleaving of lookup and insert.              *)
C27_OneSliceCreated ==
    (/\ BothDone
     /\ \A s \in Sessions :
           /\ ses[s].args.period_value = Some("2026")
           /\ ~ses[s].args.force_new_season)
    => /\ Cardinality(ExistingSlices(db, 0, "TOTAL", "SEASON", "2026")) = 1
       /\ ses[1].slice_id = ses[2].slice_id

====
